---- MODULE Spec2Model ----
(***************************************************************************)
(* Model of the parking lookup service: the synchronization run            *)
(* (UseCases.save_or_update_parking_spots over HttpParkingDataSource and    *)
(* MongoDBStorage.upsert) and the query operations of MongoDBStorage.       *)
(*                                                                         *)
(* Conventions.                                                            *)
(*  - Python's Optional[T] is a sequence of length 0 (None) or 1 (a value). *)
(*  - Strings are TLA+ strings, read character by character with SubSeq.    *)
(*    The stored strings hold letters, digits and spaces only.  A query    *)
(*    string may also hold ".", which a MongoDB $regex built from it reads  *)
(*    as any one character; every other character stands for itself.      *)
(*  - A stored document is the record model_dump(by_alias=True) produces    *)
(*    (keys _id, resolutionAddress, customType, ...); a Parking is the      *)
(*    record Parking.model_validate produces (fields id,                   *)
(*    resolution_address, custom_type, ...).                               *)
(*  - Floating point is replaced by fixed point: angles are whole degrees   *)
(*    on a grid of 30, sines are scaled by TrigScale, distances are whole   *)
(*    meters.                                                              *)
(***************************************************************************)
EXTENDS Integers, Sequences, FiniteSets, TLC

\* ------------------------------------------------------------------ bounds

\* Longest list of raw items one fetch returns, and most documents in a store.
MaxFetch == 2

\* Largest result-count limit a caller passes.
MaxLimit == 2

\* ----------------------------------------------------------- Optional[T]

None == <<>>

Some(v) == <<v>>

IsNone(o) == Len(o) = 0

\* ----------------------------------------------------------------- strings

UpperToLower ==
    [c \in {"A", "B", "D", "E", "G", "I", "K", "L", "N", "P", "R", "S", "X", "Y", "Z"} |->
        CASE c = "A" -> "a" [] c = "B" -> "b" [] c = "D" -> "d" [] c = "E" -> "e"
          [] c = "G" -> "g" [] c = "I" -> "i" [] c = "K" -> "k" [] c = "L" -> "l"
          [] c = "N" -> "n" [] c = "P" -> "p" [] c = "R" -> "r" [] c = "S" -> "s"
          [] c = "X" -> "x" [] c = "Y" -> "y" [] c = "Z" -> "z"]

LowerChar(c) == IF c \in DOMAIN UpperToLower THEN UpperToLower[c] ELSE c

\* str.lower(): every upper-case letter replaced by its lower-case letter.
RECURSIVE Lower(_)
Lower(s) ==
    IF Len(s) = 0 THEN ""
    ELSE LowerChar(SubSeq(s, 1, 1)) \o Lower(SubSeq(s, 2, Len(s)))

\* Python's `needle in s`: needle occurs in s as a contiguous substring.
Contains(s, needle) ==
    \E i \in 1..(Len(s) - Len(needle) + 1) : SubSeq(s, i, i + Len(needle) - 1) = needle

\* The words of s: its maximal runs of characters other than the space.
Tokens(s) ==
    { SubSeq(s, i, j) : <<i, j>> \in
        { p \in (1..Len(s)) \X (1..Len(s)) :
            /\ p[1] <= p[2]
            /\ \A k \in p[1]..p[2] : SubSeq(s, k, k) # " "
            /\ (p[1] = 1 \/ SubSeq(s, p[1] - 1, p[1] - 1) = " ")
            /\ (p[2] = Len(s) \/ SubSeq(s, p[2] + 1, p[2] + 1) = " ") } }

\* -------------------------------------------------------------- data model

LangString(en, ru) == [en |-> en, ru |-> ru]

Address(house, street) == [house |-> house, street |-> street]

Geometry(type, coordinates) == [type |-> type, coordinates |-> coordinates]

\* A point as MongoDB and GeoJSON order it: (longitude, latitude).
Point(lon, lat) == Geometry("Point", <<lon, lat>>)

LineString(pts) == Geometry("LineString", pts)

Coordinates(latitude, longitude) == [latitude |-> latitude, longitude |-> longitude]

\* The zone of a raw item, keyed by alias (_id, type, vehicleType).
RawZone(id, number) ==
    [_id |-> id, active |-> TRUE, city |-> "Moscow",
     description |-> LangString("Zone", "Zona"), number |-> number,
     prices |-> Some(<<[price |-> Some([max |-> 80, min |-> 40]), vehicleType |-> "car"]>>),
     type |-> "paid"]

\* A raw item of the external source, which is also the shape of a stored
\* document: every key is the alias of its Parking field.
RawItem(id, nameEn, street, litera, zone, center, blocked, spaces, distance) ==
    [_id |-> id,
     address |-> Address(LangString("10", "10"), LangString(street, "Ulitsa")),
     blocked |-> blocked,
     category |-> [_id |-> 1, iconName |-> Some("lot"), zonePurpose |-> None],
     center |-> center,
     city |-> "Moscow",
     contacts |-> LangString("", ""),
     customType |-> None,
     description |-> LangString("Paid lot", "Platnaya"),
     location |-> center,
     name |-> LangString(nameEn, "Stoyanka"),
     litera |-> litera,
     resolutionAddress |-> street \o " 10",
     spaces |-> spaces,
     subway |-> None,
     zone |-> zone,
     distance |-> distance]

SomeSpaces == Some([common |-> Some(5), total |-> Some(10)])

\* The raw items a fetch can return.  Item 4 is a disabled parking, item 3 is
\* blocked but active and has a three-point LineString as its center, item 2
\* carries a distance value of its own, item 5 lacks the required spaces.
Item1 == RawItem(1, "Park A", "Lenina", None, Some(RawZone(11, "Z1")),
                 Point(30, 0), FALSE, SomeSpaces, None)

Item2 == RawItem(2, "Park A Annex", "Lenina", None, Some(RawZone(12, "Z2")),
                 Point(0, 60), FALSE, SomeSpaces, Some(7))

Item3 == RawItem(3, "Disabled Parkside", "Mira", Some("Z3"), None,
                 LineString(<<<<0, 0>>, <<30, 0>>, <<30, 30>>>>), TRUE, SomeSpaces, None)

Item4 == RawItem(4, "DISABLED Parking 9", "Mira", Some("Z1"), None,
                 Point(0, 0), FALSE, SomeSpaces, None)

Item5 == RawItem(5, "Yard", "Sadovaya", Some("Z1"), None,
                 Point(0, 0), FALSE, None, None)

\* An element of the response list that is not a JSON object (a string, a
\* number, null): it has none of the keys and no get method.
Item6 == [json |-> "oops"]

RawItems == {Item1, Item2, Item3, Item4, Item5, Item6}

\* isinstance(item, dict)
IsDict(item) == "json" \notin DOMAIN item

\* ------------------------------------------------ document <-> Parking

ZonePriceValidate(zp) == [price |-> zp.price, vehicle_type |-> zp.vehicleType]

ZonePriceDump(zp) == [price |-> zp.price, vehicleType |-> zp.vehicle_type]

ZoneValidate(z) ==
    [id |-> z._id, active |-> z.active, city |-> z.city, description |-> z.description,
     number |-> z.number,
     prices |-> IF IsNone(z.prices) THEN None
                ELSE Some([i \in 1..Len(z.prices[1]) |-> ZonePriceValidate(z.prices[1][i])]),
     zone_type |-> z.type]

ZoneDump(z) ==
    [_id |-> z.id, active |-> z.active, city |-> z.city, description |-> z.description,
     number |-> z.number,
     prices |-> IF IsNone(z.prices) THEN None
                ELSE Some([i \in 1..Len(z.prices[1]) |-> ZonePriceDump(z.prices[1][i])]),
     type |-> z.zone_type]

CategoryValidate(c) == [id |-> c._id, icon_name |-> c.iconName, zone_purpose |-> c.zonePurpose]

CategoryDump(c) == [_id |-> c.id, iconName |-> c.icon_name, zonePurpose |-> c.zone_purpose]

\* Parking.model_validate raises for an item that is no object and for one
\* without its required spaces.
IsValidItem(item) == IsDict(item) /\ ~IsNone(item.spaces)

\* Parking.model_validate(item): the Parking, or None where it raises.
ModelValidate(item) ==
    IF ~IsValidItem(item) THEN None
    ELSE Some(
        [id |-> item._id,
         address |-> item.address,
         blocked |-> item.blocked,
         category |-> CategoryValidate(item.category),
         center |-> item.center,
         city |-> item.city,
         contacts |-> item.contacts,
         custom_type |-> item.customType,
         description |-> item.description,
         location |-> item.location,
         name |-> item.name,
         litera |-> item.litera,
         resolution_address |-> item.resolutionAddress,
         spaces |-> item.spaces,
         subway |-> item.subway,
         zone |-> IF IsNone(item.zone) THEN None ELSE Some(ZoneValidate(item.zone[1])),
         distance |-> item.distance])

ModelDumpSwapsTexts(p) ==
    [_id |-> p.id,
     address |-> p.address,
     blocked |-> p.blocked,
     category |-> CategoryDump(p.category),
     center |-> p.center,
     city |-> p.city,
     contacts |-> p.description,
     customType |-> p.custom_type,
     description |-> p.contacts,
     location |-> p.location,
     name |-> p.name,
     litera |-> p.litera,
     resolutionAddress |-> p.resolution_address,
     spaces |-> p.spaces,
     subway |-> p.subway,
     zone |-> IF IsNone(p.zone) THEN None ELSE Some(ZoneDump(p.zone[1])),
     distance |-> p.distance]

\* parking.model_dump(by_alias=True)
ModelDump(p) ==
    [_id |-> p.id,
     address |-> p.address,
     blocked |-> p.blocked,
     category |-> CategoryDump(p.category),
     center |-> p.center,
     city |-> p.city,
     contacts |-> p.contacts,
     customType |-> p.custom_type,
     description |-> p.description,
     location |-> p.location,
     name |-> p.name,
     litera |-> p.litera,
     resolutionAddress |-> p.resolution_address,
     spaces |-> p.spaces,
     subway |-> p.subway,
     zone |-> IF IsNone(p.zone) THEN None ELSE Some(ZoneDump(p.zone[1])),
     distance |-> p.distance]

\* --------------------------------------------------------- activity filter

DisabledMarker == "disabled parking"

IsActiveNoLower(p) == ~Contains(p.name.en, DisabledMarker)

IsActiveUnlessBlocked(p) == ~p.blocked /\ ~Contains(Lower(p.name.en), DisabledMarker)

\* Parking.is_active
IsActive(p) == ~Contains(Lower(p.name.en), DisabledMarker)

FilterActiveParkingsKeepsAll(parkings) == parkings

FilterActiveParkingsSkipsAfterRemoved(parkings) ==
    LET keep == { i \in 1..Len(parkings) :
                    \/ IsActive(parkings[i])
                    \/ (i % 2 = 0 /\ ~IsActive(parkings[i - 1])) }
    IN [k \in 1..Cardinality(keep) |->
            parkings[CHOOSE i \in keep : Cardinality({ j \in keep : j <= i }) = k]]

\* filter_active_parkings: the ActiveParkings collection, as its list
\* [parking for parking in parkings if parking.is_active()].
RECURSIVE FilterActiveParkings(_)
FilterActiveParkings(parkings) ==
    IF Len(parkings) = 0 THEN <<>>
    ELSE (IF IsActive(Head(parkings)) THEN <<Head(parkings)>> ELSE <<>>)
         \o FilterActiveParkings(Tail(parkings))

\* ActiveParkings.is_empty
IsEmpty(active) == Len(active) = 0

\* The except clause of _parse_parkings_from_data logs item.get("_id",
\* "unknown"): for an item that is no object the call raises an
\* AttributeError, which leaves the loop and the function.
ParseRaises(raw) == \E i \in 1..Len(raw) : ~IsDict(raw[i])

\* HttpParkingDataSource._parse_parkings_from_data, where it does not raise:
\* items that fail to validate are skipped.
RECURSIVE ParseParkingsFromData(_)
ParseParkingsFromData(raw) ==
    IF Len(raw) = 0 THEN <<>>
    ELSE ModelValidate(Head(raw)) \o ParseParkingsFromData(Tail(raw))

\* MongoDBStorage._convert_parkings_to_documents
ConvertParkingsToDocuments(active) == [i \in 1..Len(active) |-> ModelDump(active[i])]

\* ------------------------------------------------------------- haversine
\* Angles stay in degrees (the sine table is indexed by degrees, which takes
\* the place of math.radians); every angle met is a multiple of 15.

\* SearchConfig.earth_radius_meters
EarthRadiusMeters == 6371000

\* TrigScale * sin of 0, 15, 30, 45, 60, 75 and 90 degrees.
SinTable == <<0, 2588, 5000, 7071, 8660, 9659, 10000>>

\* The fixed-point scale: sin(90 degrees) in the table.
TrigScale == SinTable[7]

\* TrigScale * the same angles in radians.
RadTable == <<0, 2618, 5236, 7854, 10472, 13090, 15708>>

\* TrigScale * sin(x degrees)
RECURSIVE SinDeg(_)
SinDeg(x) ==
    IF x < 0 THEN 0 - SinDeg(0 - x)
    ELSE IF x >= 360 THEN SinDeg(x - 360)
    ELSE IF x > 180 THEN 0 - SinDeg(x - 180)
    ELSE IF x > 90 THEN SinDeg(180 - x)
    ELSE SinTable[(x \div 15) + 1]

\* TrigScale * cos(x degrees)
CosDeg(x) == SinDeg(90 - x)

\* The integer square root of n, between lo and hi.
RECURSIVE IsqrtBetween(_, _, _)
IsqrtBetween(n, lo, hi) ==
    IF lo >= hi THEN lo
    ELSE LET mid == (lo + hi + 1) \div 2
         IN IF mid * mid <= n THEN IsqrtBetween(n, mid, hi)
            ELSE IsqrtBetween(n, lo, mid - 1)

\* TrigScale * sqrt(a / TrigScale)
Sqrt(a) == IsqrtBetween(a * TrigScale, 0, TrigScale)

\* TrigScale * asin(y / TrigScale) in radians, for 0 <= y <= TrigScale, read
\* off the table with linear interpolation.
Asin(y) ==
    LET k == CHOOSE i \in 1..6 : SinTable[i] <= y /\ y <= SinTable[i + 1]
    IN RadTable[k] + ((y - SinTable[k]) * (RadTable[k + 1] - RadTable[k]))
                        \div (SinTable[k + 1] - SinTable[k])

HaversineCosOfFirst(lon1, lat1, lon2, lat2) ==
    LET dlon == lon2 - lon1
        dlat == lat2 - lat1
        sLat == SinDeg(dlat \div 2)
        sLon == SinDeg(dlon \div 2)
        a == (sLat * sLat) \div TrigScale
             + (((CosDeg(lat1) * CosDeg(lat1)) \div TrigScale)
                * ((sLon * sLon) \div TrigScale)) \div TrigScale
        c == 2 * Asin(Sqrt(a))
    IN (c * (EarthRadiusMeters \div 1000)) \div 10

\* haversine(lon1, lat1, lon2, lat2) of _calculate_distance, in meters.
Haversine(lon1, lat1, lon2, lat2) ==
    LET dlon == lon2 - lon1
        dlat == lat2 - lat1
        sLat == SinDeg(dlat \div 2)
        sLon == SinDeg(dlon \div 2)
        a == (sLat * sLat) \div TrigScale
             + (((CosDeg(lat1) * CosDeg(lat2)) \div TrigScale)
                * ((sLon * sLon) \div TrigScale)) \div TrigScale
        c == 2 * Asin(Sqrt(a))
    IN (c * (EarthRadiusMeters \div 1000)) \div 10

\* MongoDBStorage._calculate_distance
CalculateDistance(coords, parking_coords) ==
    Haversine(coords.longitude, coords.latitude, parking_coords[1], parking_coords[2])

\* ------------------------------------------------------- store primitives
\* The collection is the sequence of its documents in insertion order, which
\* is the order an unsorted find returns them in.

RECURSIVE Take(_, _)
Take(xs, n) ==
    IF n <= 0 \/ Len(xs) = 0 THEN <<>> ELSE <<Head(xs)>> \o Take(Tail(xs), n - 1)

\* cursor.limit(limit): 0 means no limit.
CursorLimit(docs, limit) == IF limit = 0 THEN docs ELSE Take(docs, limit)

\* cursor.to_list(length): at most length documents, all of them for None.
\* A length of 0 yields the empty list.
ToList(docs, length) == IF IsNone(length) THEN docs ELSE Take(docs, length[1])

\* collection.find(query).limit(limit) read by to_list(length=limit), where
\* matched are the documents the query matches.
FindLimited(matched, limit) == ToList(CursorLimit(matched, limit), Some(limit))

\* The documents of docs at the positions where keep is TRUE, in order.
RECURSIVE PickFrom(_, _, _)
PickFrom(docs, keep, i) ==
    IF i > Len(docs) THEN <<>>
    ELSE (IF keep[i] THEN <<docs[i]>> ELSE <<>>) \o PickFrom(docs, keep, i + 1)

Pick(docs, keep) == PickFrom(docs, keep, 1)

Ids(docs) == { docs[i]._id : i \in 1..Len(docs) }

InsertManyReplaces(coll, documents) == [store |-> documents, raised |-> FALSE]

\* collection.insert_many(documents), ordered: the documents are inserted one
\* by one, and the first one whose _id is already stored stops the insert with
\* an error; those before it stay inserted.
RECURSIVE InsertMany(_, _)
InsertMany(coll, documents) ==
    IF Len(documents) = 0 THEN [store |-> coll, raised |-> FALSE]
    ELSE IF Head(documents)._id \in Ids(coll) THEN [store |-> coll, raised |-> TRUE]
    ELSE InsertMany(Append(coll, Head(documents)), Tail(documents))

DeleteManyKeeps(coll) == coll

\* collection.delete_many({})
DeleteMany(coll) == <<>>

\* ------------------------------------------------------ query predicates

\* {field: {"$regex": pattern, "$options": "i"}} on an optional string field:
\* a missing or null field never matches; the pattern, which the code passes
\* on unescaped, matches anywhere in the field, letter case ignored, and its
\* "." matches any one character.
RegexMatch(field, pattern) ==
    /\ ~IsNone(field)
    /\ LET s == Lower(field[1])
           p == Lower(pattern)
       IN \E i \in 1..(Len(s) - Len(p) + 1) :
              \A k \in 1..Len(p) :
                  \/ SubSeq(p, k, k) = "."
                  \/ SubSeq(s, i + k - 1, i + k - 1) = SubSeq(p, k, k)

SubwayRu(doc) == IF IsNone(doc.subway) THEN None ELSE Some(doc.subway[1].ru)

SubwayEn(doc) == IF IsNone(doc.subway) THEN None ELSE Some(doc.subway[1].en)

ZoneNumber(doc) == IF IsNone(doc.zone) THEN None ELSE Some(doc.zone[1].number)

\* The fields of the regex fallback of find_by_name.
NameFields(doc) ==
    {Some(doc.name.ru), Some(doc.name.en),
     Some(doc.address.street.ru), Some(doc.address.street.en),
     SubwayRu(doc), SubwayEn(doc),
     Some(doc.description.ru), Some(doc.description.en)}

\* _build_name_search_conditions: the fields of NameFields and zone.number.
BuildNameSearchConditions(doc) == NameFields(doc) \cup {ZoneNumber(doc)}

BuildNumberSearchConditionsLiteraOnly(doc) == {doc.litera}

\* _build_number_search_conditions: litera and zone.number.
BuildNumberSearchConditions(doc) == {doc.litera, ZoneNumber(doc)}

\* The fields find_by_address matches against.
AddressFields(doc) ==
    {Some(doc.address.street.ru), Some(doc.address.street.en),
     Some(doc.address.house.ru), Some(doc.address.house.en),
     Some(doc.resolutionAddress)}

\* The fields of the text index _ensure_indexes creates.
TextIndexFields(doc) ==
    {Some(doc.name.ru), Some(doc.name.en),
     Some(doc.address.street.ru), Some(doc.address.street.en),
     Some(doc.address.house.ru), Some(doc.address.house.en),
     SubwayRu(doc), SubwayEn(doc),
     Some(doc.description.ru), Some(doc.description.en)}

\* {"$or": [{field: regex} ...]} on one document
OrRegex(fields, pattern) == \E f \in fields : RegexMatch(f, pattern)

\* {"$text": {"$search": search}} on one document: some word of the search
\* string is a word of an indexed field, letter case ignored (stemming and
\* stop words are left out).
TextMatch(doc, search) ==
    \E f \in TextIndexFields(doc) :
        /\ ~IsNone(f)
        /\ Tokens(Lower(search)) \cap Tokens(Lower(f[1])) # {}

\* _search_by_text / the first query of find_by_name, before the limit
TextQuery(coll, name) == Pick(coll, [i \in 1..Len(coll) |-> TextMatch(coll[i], name)])

NameRegexQuery(coll, name) ==
    Pick(coll, [i \in 1..Len(coll) |-> OrRegex(NameFields(coll[i]), name)])

NameNumberRegexQuery(coll, name) ==
    Pick(coll, [i \in 1..Len(coll) |-> OrRegex(BuildNameSearchConditions(coll[i]), name)])

NumberRegexQuery(coll, number) ==
    Pick(coll, [i \in 1..Len(coll) |-> OrRegex(BuildNumberSearchConditions(coll[i]), number)])

TextAndNumberQuery(coll, name, number) ==
    Pick(coll, [i \in 1..Len(coll) |->
        TextMatch(coll[i], name) /\ OrRegex(BuildNumberSearchConditions(coll[i]), number)])

AddressRegexQuery(coll, query) ==
    Pick(coll, [i \in 1..Len(coll) |-> OrRegex(AddressFields(coll[i]), query)])

\* ---------------------------------------------------- query post-processing

\* MongoDBStorage._convert_documents_to_parkings: a document that fails to
\* validate is skipped.
RECURSIVE ConvertDocumentsToParkings(_)
ConvertDocumentsToParkings(documents) ==
    IF Len(documents) = 0 THEN <<>>
    ELSE ModelValidate(Head(documents)) \o ConvertDocumentsToParkings(Tail(documents))

\* The outcome of a query operation: whether it raised, the list it returned
\* (a one-element or empty list for find_by_id's Parking or None), and the
\* store queries it issued, in order.
Returned(result, issued) == [raised |-> FALSE, result |-> result, issued |-> issued]

Raised(issued) == [raised |-> TRUE, result |-> <<>>, issued |-> issued]

\* -------------------------------------------------------- find_by_coordinates

RECURSIVE MinOf(_)
MinOf(S) ==
    LET x == CHOOSE y \in S : TRUE
    IN IF S = {x} THEN x
       ELSE LET m == MinOf(S \ {x}) IN IF x < m THEN x ELSE m

\* The distance $near measures from the query point to a stored center: to the
\* point, or to the nearest vertex of a line.
GeoDistance(coords, center) ==
    IF center.type = "Point"
    THEN Haversine(coords.longitude, coords.latitude,
                   center.coordinates[1], center.coordinates[2])
    ELSE MinOf({ Haversine(coords.longitude, coords.latitude,
                           center.coordinates[i][1], center.coordinates[i][2]) :
                 i \in 1..Len(center.coordinates) })

\* e placed into the ascending list sorted, after the entries of equal key.
RECURSIVE InsertByKey(_, _)
InsertByKey(sorted, e) ==
    IF Len(sorted) = 0 THEN <<e>>
    ELSE IF e.key < Head(sorted).key THEN <<e>> \o sorted
    ELSE <<Head(sorted)>> \o InsertByKey(Tail(sorted), e)

\* A stable ascending sort of entries [key, item] by key.
RECURSIVE SortByKey(_)
SortByKey(entries) ==
    IF Len(entries) = 0 THEN <<>>
    ELSE InsertByKey(SortByKey(SubSeq(entries, 1, Len(entries) - 1)), entries[Len(entries)])

Items(entries) == [i \in 1..Len(entries) |-> entries[i].item]

\* _build_geospatial_query run by the store: the documents whose center lies
\* within distance meters of coords, nearest first.
NearQuery(coll, coords, distance) ==
    LET within == Pick(coll, [i \in 1..Len(coll) |->
                        GeoDistance(coords, coll[i].center) <= distance])
    IN Items(SortByKey([i \in 1..Len(within) |->
                [key |-> GeoDistance(coords, within[i].center), item |-> within[i]]]))

\* _calculate_distance raises a TypeError when the two entries of the center
\* are not numbers (a line of two vertices).
CalculateDistanceRaises(doc) ==
    Len(doc.center.coordinates) = 2 /\ doc.center.type # "Point"

AddDistanceKeepStored(documents, coords) ==
    [i \in 1..Len(documents) |->
        IF Len(documents[i].center.coordinates) = 2 /\ IsNone(documents[i].distance)
        THEN [documents[i] EXCEPT
                !.distance = Some(CalculateDistance(coords, documents[i].center.coordinates))]
        ELSE documents[i]]

\* MongoDBStorage._add_distance_to_documents
AddDistanceToDocuments(documents, coords) ==
    [i \in 1..Len(documents) |->
        IF Len(documents[i].center.coordinates) = 2
        THEN [documents[i] EXCEPT
                !.distance = Some(CalculateDistance(coords, documents[i].center.coordinates))]
        ELSE documents[i]]

\* The key of _sort_parkings_by_distance: getattr(x, "distance", inf) is the
\* distance field, which every Parking has: a number or None.
SortKey(parking) == parking.distance

\* list.sort raises a TypeError as soon as it compares None with a key: that
\* is, when there are two or more parkings and one of the keys is None.
SortRaises(parkings) ==
    Len(parkings) >= 2 /\ \E i \in 1..Len(parkings) : IsNone(SortKey(parkings[i]))

\* MongoDBStorage._sort_parkings_by_distance, where it does not raise.
SortParkingsByDistance(parkings) ==
    IF Len(parkings) < 2 THEN parkings
    ELSE Items(SortByKey([i \in 1..Len(parkings) |->
                [key |-> SortKey(parkings[i])[1], item |-> parkings[i]]]))

\* MongoDBStorage.find_by_coordinates
FindByCoordinatesOp(coll, coords, distance, limit) ==
    LET documents == FindLimited(NearQuery(coll, coords, distance), limit)
        parkings == ConvertDocumentsToParkings(AddDistanceToDocuments(documents, coords))
    IN IF \E i \in 1..Len(documents) : CalculateDistanceRaises(documents[i])
       THEN Raised(<<"near">>)
       ELSE IF SortRaises(parkings) THEN Raised(<<"near">>)
       ELSE Returned(SortParkingsByDistance(parkings), <<"near">>)

\* --------------------------------------------------------------- find_by_id

\* collection.find_one({"_id": parking_id}): the document, or None.
FindOne(coll, parking_id) ==
    Take(Pick(coll, [i \in 1..Len(coll) |-> coll[i]._id = parking_id]), 1)

FindByIdFirstStored(coll, parking_id) ==
    Returned(Take(ConvertDocumentsToParkings(Take(coll, 1)), 1), <<"find_one">>)

\* MongoDBStorage.find_by_id
FindByIdOp(coll, parking_id) ==
    LET doc == FindOne(coll, parking_id)
    IN IF IsNone(doc) THEN Returned(None, <<"find_one">>)
       ELSE Returned(Take(ConvertDocumentsToParkings(doc), 1), <<"find_one">>)

\* ------------------------------------------------------------- find_by_name

FindByNameBothPhases(coll, name, limit) ==
    LET documents == FindLimited(TextQuery(coll, name), limit)
        more == FindLimited(NameRegexQuery(coll, name), limit)
    IN Returned(ConvertDocumentsToParkings(
                    documents \o Pick(more, [i \in 1..Len(more) |->
                                                more[i]._id \notin Ids(documents)])),
                <<"text", "regex">>)

\* MongoDBStorage.find_by_name
FindByNameOp(coll, name, limit) ==
    LET documents == FindLimited(TextQuery(coll, name), limit)
    IN IF Len(documents) = 0
       THEN Returned(ConvertDocumentsToParkings(
                        FindLimited(NameRegexQuery(coll, name), limit)),
                     <<"text", "regex">>)
       ELSE Returned(ConvertDocumentsToParkings(documents), <<"text">>)

\* -------------------------------------------------- find_by_name_and_number

FalsyNoneOnly(x) == IsNone(x)

\* Python's `not x` for an optional string: None or the empty string.
Falsy(x) == IsNone(x) \/ x[1] = ""

NameBlockNarrowsRegex(coll, name, number, limit) ==
    LET text == FindLimited(TextQuery(coll, name[1]), limit)
        byName == NameNumberRegexQuery(coll, name[1])
    IN IF Len(text) = 0
       THEN [documents |->
                FindLimited(IF Falsy(number) THEN byName
                            ELSE Pick(byName, [i \in 1..Len(byName) |->
                                    OrRegex(BuildNumberSearchConditions(byName[i]), number[1])]),
                            limit),
             issued |-> <<"text", "regex_name">>]
       ELSE IF ~Falsy(number)
       THEN [documents |-> FindLimited(TextAndNumberQuery(coll, name[1], number[1]), limit),
             issued |-> <<"text", "text_and_number">>]
       ELSE [documents |-> text, issued |-> <<"text">>]

\* The `if name:` block of find_by_name_and_number, for a name that is given.
NameBlock(coll, name, number, limit) ==
    LET text == FindLimited(TextQuery(coll, name[1]), limit)
    IN IF Len(text) = 0
       THEN [documents |-> FindLimited(NameNumberRegexQuery(coll, name[1]), limit),
             issued |-> <<"text", "regex_name">>]
       ELSE IF ~Falsy(number)
       THEN [documents |-> FindLimited(TextAndNumberQuery(coll, name[1], number[1]), limit),
             issued |-> <<"text", "text_and_number">>]
       ELSE [documents |-> text, issued |-> <<"text">>]

\* MongoDBStorage.find_by_name_and_number
FindByNameAndNumberOp(coll, name, number, limit) ==
    IF Falsy(name) /\ Falsy(number) THEN Returned(<<>>, <<>>)
    ELSE LET first == IF ~Falsy(name) THEN NameBlock(coll, name, number, limit)
                      ELSE [documents |-> <<>>, issued |-> <<>>]
         IN IF Len(first.documents) = 0 /\ ~Falsy(number)
            THEN Returned(ConvertDocumentsToParkings(
                            FindLimited(NumberRegexQuery(coll, number[1]), limit)),
                          Append(first.issued, "regex_number"))
            ELSE Returned(ConvertDocumentsToParkings(first.documents), first.issued)

\* ---------------------------------------------------- find_by_address, find_all

\* MongoDBStorage.find_by_address
FindByAddressOp(coll, address_query, limit) ==
    Returned(ConvertDocumentsToParkings(
                FindLimited(AddressRegexQuery(coll, address_query), limit)),
             <<"regex_address">>)

\* MongoDBStorage.find_all: the limit is applied only when it is given and not
\* 0, and to_list reads the whole cursor.
FindAllOp(coll, limit) ==
    LET cursor == IF ~IsNone(limit) /\ limit[1] # 0 THEN CursorLimit(coll, limit[1]) ELSE coll
    IN Returned(ConvertDocumentsToParkings(ToList(cursor, None)), <<"find">>)

\* ------------------------------------------------------------------- state

\* The two callers of a synchronization run: the sync_parkings job and the
\* POST /sync endpoint.
Runs == {"job", "api"}

VARIABLES
    store,      \* the parkings collection: its documents in insertion order
    pc,         \* pc[r]: where run r stands
    before,     \* before[r]: the collection as it was when run r started
    received,   \* received[r]: the raw items the source answered run r with
    fetched,    \* fetched[r]: the parkings fetch_parking_data returned to run r
    batch,      \* batch[r]: the ActiveParkings run r passed to upsert
    documents,  \* documents[r]: the documents upsert converted the batch to
    log,        \* log[r]: what run r called and the errors raised, in order
    q           \* the last query operation: its name, arguments and outcome

vars == <<store, pc, before, received, fetched, batch, documents, log, q>>

\* fault is 0, or the position of the store query that raised.
NoQuery == [op |-> "none", args |-> <<>>, out |-> Returned(<<>>, <<>>), fault |-> 0]

\* Lists of at most n elements of S.
ListsUpTo(S, n) == UNION { [1..k -> S] : k \in 0..n }

\* What one fetch can return, before parsing.
FetchResults == ListsUpTo(RawItems, MaxFetch)

Limits == 0..MaxLimit

QueryCoords == {Coordinates(0, 0), Coordinates(30, 0)}

QueryDistances == {3500000, 7000000}

QueryIds == {1, 3, 4}

QueryNames == {"Park A", "Park", "side", "Z2", "XYZ"}

QueryNumbers == {"Z1", "Z3"}

QueryAddresses == {"lenina", "10", "1.", "XYZ"}

OptionalOf(S) == {None, Some("")} \cup { Some(x) : x \in S }

Init ==
    /\ store = <<>>
    /\ pc = [r \in Runs |-> "idle"]
    /\ before = [r \in Runs |-> <<>>]
    /\ received = [r \in Runs |-> None]
    /\ fetched = [r \in Runs |-> None]
    /\ batch = [r \in Runs |-> <<>>]
    /\ documents = [r \in Runs |-> <<>>]
    /\ log = [r \in Runs |-> <<>>]
    /\ q = NoQuery

\* ------------------------------------------------- the synchronization run

\* save_or_update_parking_spots is called and awaits fetch_parking_data.
StartSync(r) ==
    /\ pc[r] = "idle"
    /\ pc' = [pc EXCEPT ![r] = "fetching"]
    /\ before' = [before EXCEPT ![r] = store]
    /\ log' = [log EXCEPT ![r] = <<"fetch_parking_data">>]
    /\ q' = NoQuery
    /\ UNCHANGED <<store, received, fetched, batch, documents>>

UpsertStartClearsOnEmpty(r, active) ==
    /\ batch' = [batch EXCEPT ![r] = active]
    /\ documents' = [documents EXCEPT ![r] = ConvertParkingsToDocuments(active)]
    /\ log' = [log EXCEPT ![r] = Append(@, "upsert")]
    /\ pc' = [pc EXCEPT ![r] = "clearing"]

\* upsert up to its first await: an empty batch returns at once, any other is
\* converted to documents and the delete is issued.
UpsertStart(r, active) ==
    /\ batch' = [batch EXCEPT ![r] = active]
    /\ log' = [log EXCEPT ![r] = Append(@, "upsert")]
    /\ IF IsEmpty(active)
       THEN /\ pc' = [pc EXCEPT ![r] = "done"]
            /\ UNCHANGED documents
       ELSE /\ documents' = [documents EXCEPT ![r] = ConvertParkingsToDocuments(active)]
            /\ pc' = [pc EXCEPT ![r] = "clearing"]

FetchFailsSwallowed(r) ==
    /\ pc[r] = "fetching"
    /\ fetched' = [fetched EXCEPT ![r] = Some(<<>>)]
    /\ batch' = [batch EXCEPT ![r] = <<>>]
    /\ log' = [log EXCEPT ![r] = Append(Append(@, "HTTPError"), "upsert")]
    /\ pc' = [pc EXCEPT ![r] = "done"]
    /\ q' = NoQuery
    /\ UNCHANGED <<store, before, received, documents>>

FetchFailsRetries(r) ==
    /\ pc[r] = "fetching"
    /\ Len(log[r]) < 4
    /\ log' = [log EXCEPT ![r] = Append(Append(@, "HTTPError"), "fetch_parking_data")]
    /\ q' = NoQuery
    /\ UNCHANGED <<store, pc, before, received, fetched, batch, documents>>

\* fetch_parking_data raises (the request fails or the body is no JSON): the
\* error is logged and re-raised, and save_or_update_parking_spots lets it
\* pass to its caller.
FetchFails(r) ==
    /\ pc[r] = "fetching"
    /\ log' = [log EXCEPT ![r] = Append(@, "HTTPError")]
    /\ pc' = [pc EXCEPT ![r] = "failed"]
    /\ q' = NoQuery
    /\ UNCHANGED <<store, before, received, fetched, batch, documents>>

\* fetch_parking_data has the response but _parse_parkings_from_data raises:
\* the error is logged and re-raised like any other.
ParseFails(r, raw) ==
    /\ pc[r] = "fetching"
    /\ ParseRaises(raw)
    /\ received' = [received EXCEPT ![r] = Some(raw)]
    /\ log' = [log EXCEPT ![r] = Append(@, "AttributeError")]
    /\ pc' = [pc EXCEPT ![r] = "failed"]
    /\ q' = NoQuery
    /\ UNCHANGED <<store, before, fetched, batch, documents>>

\* fetch_parking_data returns: the raw items are parsed, the parkings are
\* filtered to the active ones and upsert is called with them.
FetchReturns(r, raw) ==
    /\ pc[r] = "fetching"
    /\ ~ParseRaises(raw)
    /\ received' = [received EXCEPT ![r] = Some(raw)]
    /\ fetched' = [fetched EXCEPT ![r] = Some(ParseParkingsFromData(raw))]
    /\ UpsertStart(r, FilterActiveParkings(ParseParkingsFromData(raw)))
    /\ q' = NoQuery
    /\ UNCHANGED <<store, before>>

ClearCollectionReplaces(r) ==
    /\ pc[r] = "clearing"
    /\ store' = documents[r]
    /\ log' = [log EXCEPT ![r] = Append(@, "delete_many")]
    /\ pc' = [pc EXCEPT ![r] = "inserting"]
    /\ q' = NoQuery
    /\ UNCHANGED <<before, received, fetched, batch, documents>>

\* _clear_collection: delete_many({}) takes effect.
ClearCollection(r) ==
    /\ pc[r] = "clearing"
    /\ store' = DeleteMany(store)
    /\ log' = [log EXCEPT ![r] = Append(@, "delete_many")]
    /\ pc' = [pc EXCEPT ![r] = "inserting"]
    /\ q' = NoQuery
    /\ UNCHANGED <<before, received, fetched, batch, documents>>

\* _insert_documents: insert_many takes effect, wholly or up to a duplicate
\* _id, and upsert returns or raises.
InsertDocuments(r) ==
    /\ pc[r] = "inserting"
    /\ LET inserted == InsertMany(store, documents[r])
       IN /\ store' = inserted.store
          /\ pc' = [pc EXCEPT ![r] = IF inserted.raised THEN "failed" ELSE "done"]
          /\ log' = [log EXCEPT ![r] =
                        IF inserted.raised
                        THEN Append(Append(@, "insert_many"), "BulkWriteError")
                        ELSE Append(@, "insert_many")]
    /\ q' = NoQuery
    /\ UNCHANGED <<before, received, fetched, batch, documents>>

\* The caller has the outcome of the run; the run can be started again.
Finish(r) ==
    /\ pc[r] \in {"done", "failed"}
    /\ pc' = [pc EXCEPT ![r] = "idle"]
    /\ before' = [before EXCEPT ![r] = <<>>]
    /\ received' = [received EXCEPT ![r] = None]
    /\ fetched' = [fetched EXCEPT ![r] = None]
    /\ batch' = [batch EXCEPT ![r] = <<>>]
    /\ documents' = [documents EXCEPT ![r] = <<>>]
    /\ log' = [log EXCEPT ![r] = <<>>]
    /\ q' = NoQuery
    /\ UNCHANGED store

\* ------------------------------------------------------------- the queries

QueryConsumes(op, args, out) ==
    /\ q.op = "none"
    /\ q' = [op |-> op, args |-> args, out |-> out, fault |-> 0]
    /\ store' = SubSeq(store, 1, Len(store) - Len(out.result))
    /\ UNCHANGED <<pc, before, received, fetched, batch, documents, log>>

\* A query operation runs against the collection as it is now; q holds what
\* its caller gets until the caller has taken it.
Query(op, args, out) ==
    /\ q.op = "none"
    /\ q' = [op |-> op, args |-> args, out |-> out, fault |-> 0]
    /\ UNCHANGED <<store, pc, before, received, fetched, batch, documents, log>>

\* The caller of the last query has taken its outcome.
Respond ==
    /\ q.op # "none"
    /\ q' = NoQuery
    /\ UNCHANGED <<store, pc, before, received, fetched, batch, documents, log>>

FindByCoordinates(coords, distance, limit) ==
    Query("find_by_coordinates",
          [coords |-> coords, distance |-> distance, limit |-> limit],
          FindByCoordinatesOp(store, coords, distance, limit))

FindById(parking_id) ==
    Query("find_by_id", [parking_id |-> parking_id], FindByIdOp(store, parking_id))

FindByName(name, limit) ==
    Query("find_by_name", [name |-> name, limit |-> limit], FindByNameOp(store, name, limit))

FindByNameAndNumber(name, number, limit) ==
    Query("find_by_name_and_number", [name |-> name, number |-> number, limit |-> limit],
          FindByNameAndNumberOp(store, name, number, limit))

FindByAddress(address_query, limit) ==
    Query("find_by_address", [address_query |-> address_query, limit |-> limit],
          FindByAddressOp(store, address_query, limit))

FindAll(limit) ==
    Query("find_all", [limit |-> limit], FindAllOp(store, limit))

\* ------------------------------------------------------------ specification

\* No other run is between its start and its end.
NoOtherRun(r) == \A o \in Runs \ {r} : pc[o] = "idle"

SyncStep(r) ==
    \/ NoOtherRun(r) /\ StartSync(r)
    \/ FetchFails(r)
    \/ \E raw \in FetchResults : ParseFails(r, raw)
    \/ \E raw \in FetchResults : FetchReturns(r, raw)
    \/ ClearCollection(r)
    \/ InsertDocuments(r)
    \/ Finish(r)

QueryStep ==
    \/ \E c \in QueryCoords, d \in QueryDistances, l \in Limits : FindByCoordinates(c, d, l)
    \/ \E i \in QueryIds : FindById(i)
    \/ \E n \in QueryNames, l \in Limits : FindByName(n, l)
    \/ \E n \in OptionalOf(QueryNames), m \in OptionalOf(QueryNumbers), l \in Limits :
          FindByNameAndNumber(n, m, l)
    \/ \E a \in QueryAddresses, l \in Limits : FindByAddress(a, l)
    \/ \E l \in {None} \cup { Some(x) : x \in Limits } : FindAll(l)

\* The two reads that need no search: by id, and everything.
ReadStep ==
    \/ \E i \in QueryIds : FindById(i)
    \/ \E l \in {None} \cup { Some(x) : x \in Limits } : FindAll(l)

Next == (\E r \in Runs : SyncStep(r)) \/ ReadStep \/ Respond

\* Synchronization runs one at a time, with reads of the collection at any
\* moment.
Spec == Init /\ [][Next]_vars

\* The documents a run can store: the dumps of the active parkings parsed
\* from the raw items.
StoredDocuments ==
    { ConvertParkingsToDocuments(FilterActiveParkings(ParseParkingsFromData(<<item>>)))[1] :
        item \in { i \in RawItems : IsValidItem(i) /\ IsActive(ModelValidate(i)[1]) } }

\* The collections a run can leave behind: documents of distinct _id.
Snapshots ==
    { s \in ListsUpTo(StoredDocuments, MaxFetch) :
        \A i, j \in 1..Len(s) : s[i]._id = s[j]._id => i = j }

InitSearch ==
    /\ store \in Snapshots
    /\ pc = [r \in Runs |-> "idle"]
    /\ before = [r \in Runs |-> <<>>]
    /\ received = [r \in Runs |-> None]
    /\ fetched = [r \in Runs |-> None]
    /\ batch = [r \in Runs |-> <<>>]
    /\ documents = [r \in Runs |-> <<>>]
    /\ log = [r \in Runs |-> <<>>]
    /\ q = NoQuery

SearchNext == QueryStep \/ Respond

\* Every query operation against every collection a run can leave behind.
SpecSearch == InitSearch /\ [][SearchNext]_vars

\* Every collection Spec reaches is one SpecSearch starts from.
StoreIsSnapshot == store \in Snapshots

\* --------------------------------------- corrupt documents and store faults

\* Documents of the collection that no run of this program wrote: both lack
\* the required spaces; the center of the second is a line of two vertices.
Item7 == RawItem(7, "Park Yard", "Lenina", Some("Z1"), None,
                 Point(0, 0), FALSE, None, None)

Item8 == RawItem(8, "Park Lane", "Lenina", Some("Z3"), None,
                 LineString(<<<<0, 0>>, <<30, 0>>>>), FALSE, None, None)

CorruptDocuments == {Item7, Item8}

\* The collections the queries can meet when other writers share the store.
SharedSnapshots ==
    { s \in ListsUpTo(StoredDocuments \cup CorruptDocuments, MaxFetch) :
        \A i, j \in 1..Len(s) : s[i]._id = s[j]._id => i = j }

\* The store raises on the at-th query of an operation that has no handler
\* around its store calls: the error leaves the operation.
ErrorPropagates(out, at) == Raised(SubSeq(out.issued, 1, at))

FindAllOnStoreErrorRaises == Raised(<<"find">>)

\* find_all's `except Exception`: the error is logged and [] is returned.
FindAllOnStoreError == Returned(<<>>, <<"find">>)

\* An operation whose at-th store query raises, out being what it would have
\* done had the store answered.
StoreError(op, args, out, at) ==
    /\ q.op = "none"
    /\ at \in 1..Len(out.issued)
    /\ q' = [op |-> op, args |-> args, out |-> ErrorPropagates(out, at), fault |-> at]
    /\ UNCHANGED <<store, pc, before, received, fetched, batch, documents, log>>

FindAllStoreError(limit) ==
    /\ q.op = "none"
    /\ q' = [op |-> "find_all", args |-> [limit |-> limit],
             out |-> FindAllOnStoreError, fault |-> 1]
    /\ UNCHANGED <<store, pc, before, received, fetched, batch, documents, log>>

\* The most store queries one operation issues.
MaxIssued == 3

FaultStep ==
    \/ \E c \in QueryCoords, d \in QueryDistances, l \in Limits, at \in 1..MaxIssued :
          StoreError("find_by_coordinates", [coords |-> c, distance |-> d, limit |-> l],
                     FindByCoordinatesOp(store, c, d, l), at)
    \/ \E i \in QueryIds, at \in 1..MaxIssued :
          StoreError("find_by_id", [parking_id |-> i], FindByIdOp(store, i), at)
    \/ \E n \in QueryNames, l \in Limits, at \in 1..MaxIssued :
          StoreError("find_by_name", [name |-> n, limit |-> l], FindByNameOp(store, n, l), at)
    \/ \E n \in OptionalOf(QueryNames), m \in OptionalOf(QueryNumbers), l \in Limits,
          at \in 1..MaxIssued :
          StoreError("find_by_name_and_number", [name |-> n, number |-> m, limit |-> l],
                     FindByNameAndNumberOp(store, n, m, l), at)
    \/ \E a \in QueryAddresses, l \in Limits, at \in 1..MaxIssued :
          StoreError("find_by_address", [address_query |-> a, limit |-> l],
                     FindByAddressOp(store, a, l), at)
    \/ \E l \in {None} \cup { Some(x) : x \in Limits } : FindAllStoreError(l)

InitShared ==
    /\ store \in SharedSnapshots
    /\ pc = [r \in Runs |-> "idle"]
    /\ before = [r \in Runs |-> <<>>]
    /\ received = [r \in Runs |-> None]
    /\ fetched = [r \in Runs |-> None]
    /\ batch = [r \in Runs |-> <<>>]
    /\ documents = [r \in Runs |-> <<>>]
    /\ log = [r \in Runs |-> <<>>]
    /\ q = NoQuery

SharedNext == QueryStep \/ FaultStep \/ Respond

\* Every query operation, with and without a store fault, against a
\* collection that may hold documents of other writers.
SpecShared == InitShared /\ [][SharedNext]_vars

\* ------------------------------------------------------------ HTTP endpoints

\* SearchConfig.default_limit
DefaultLimit == 20

\* What a handler answers: the status, the error of the detail (empty for a
\* 200) and the body.
Response(status, error, body) == [status |-> status, error |-> error, body |-> body]

NotFound == Response(404, "Not Found Error", <<>>)

InternalServerError == Response(500, "Internal Server Error", <<>>)

\* What the use case gives its caller: the outcome of the storage operation,
\* or the store error of its at-th query where at is not 0.
UseCaseOutcome(out, at) == IF at = 0 THEN out ELSE ErrorPropagates(out, at)

ListEndpointWithoutReraise(out) ==
    IF out.raised \/ Len(out.result) = 0 THEN InternalServerError
    ELSE Response(200, "", out.result)

ListEndpointHidesError(out) ==
    IF out.raised \/ Len(out.result) = 0 THEN NotFound
    ELSE Response(200, "", out.result)

\* The body of get_parking_info and of search_parking_by_name after the use
\* case: `if not parkings` raises the 404, `except HTTPException: raise` lets
\* it pass, `except Exception` turns everything else into the 500.
ListEndpoint(out) ==
    IF out.raised THEN InternalServerError
    ELSE IF Len(out.result) = 0 THEN NotFound
    ELSE Response(200, "", out.result)

\* The body of get_parking_by_id after the use case: `if parking is None`.
GetByIdEndpoint(out) ==
    IF out.raised THEN InternalServerError
    ELSE IF IsNone(out.result) THEN NotFound
    ELSE Response(200, "", out.result)

\* The body of sync_parking_data after save_or_update_parking_spots.
SyncEndpoint(raised) ==
    IF raised THEN InternalServerError ELSE Response(200, "", <<"success">>)

\* No sync request is between its start and its answer.
NoSyncRequest == pc["api"] = "idle"

\* A handler has run, requests being served one after the other: q holds the
\* outcome of its use case and its response.
Handle(op, args, out, at, response) ==
    /\ NoSyncRequest
    /\ q.op = "none"
    /\ at \in 0..Len(out.issued)
    /\ q' = [op |-> op, args |-> args, out |-> UseCaseOutcome(out, at), fault |-> at,
             response |-> response]
    /\ UNCHANGED <<store, pc, before, received, fetched, batch, documents, log>>

\* GET /api/v1/mos_parking/parking
GetParkingInfo(lat, long, distance, limit, at) ==
    LET out == FindByCoordinatesOp(store, Coordinates(lat, long), distance, limit)
    IN Handle("get_parking_info",
              [lat |-> lat, long |-> long, distance |-> distance, limit |-> limit],
              out, at, ListEndpoint(UseCaseOutcome(out, at)))

\* GET /api/v1/mos_parking/parking/search
SearchParkingByName(name, limit, at) ==
    LET out == FindByNameOp(store, name, IF IsNone(limit) THEN DefaultLimit ELSE limit[1])
    IN Handle("search_parking_by_name", [name |-> name, limit |-> limit],
              out, at, ListEndpoint(UseCaseOutcome(out, at)))

\* GET /api/v1/mos_parking/parking/{id}
GetParkingById(id, at) ==
    LET out == FindByIdOp(store, id)
    IN Handle("get_parking_by_id", [id |-> id], out, at,
              GetByIdEndpoint(UseCaseOutcome(out, at)))

\* POST /api/v1/mos_parking/sync: save_or_update_parking_spots has returned
\* or raised, and the handler answers.
SyncParkingData ==
    /\ pc["api"] \in {"done", "failed"}
    /\ q' = [op |-> "sync_parking_data", args |-> <<>>,
             out |-> IF pc["api"] = "failed" THEN Raised(<<>>) ELSE Returned(<<>>, <<>>),
             fault |-> 0, response |-> SyncEndpoint(pc["api"] = "failed")]
    /\ pc' = [pc EXCEPT !["api"] = "idle"]
    /\ before' = [before EXCEPT !["api"] = <<>>]
    /\ received' = [received EXCEPT !["api"] = None]
    /\ fetched' = [fetched EXCEPT !["api"] = None]
    /\ batch' = [batch EXCEPT !["api"] = <<>>]
    /\ documents' = [documents EXCEPT !["api"] = <<>>]
    /\ log' = [log EXCEPT !["api"] = <<>>]
    /\ UNCHANGED store

\* The run the sync endpoint starts, up to its answer.
SyncRequest ==
    \/ StartSync("api")
    \/ FetchFails("api")
    \/ \E raw \in FetchResults : ParseFails("api", raw)
    \/ \E raw \in FetchResults : FetchReturns("api", raw)
    \/ ClearCollection("api")
    \/ InsertDocuments("api")
    \/ SyncParkingData

GetRequest ==
    \/ \E c \in QueryCoords, d \in QueryDistances, l \in Limits, at \in 0..1 :
          GetParkingInfo(c.latitude, c.longitude, d, l, at)
    \/ \E n \in QueryNames, l \in {None} \cup { Some(x) : x \in Limits }, at \in 0..2 :
          SearchParkingByName(n, l, at)
    \/ \E i \in QueryIds, at \in 0..1 : GetParkingById(i, at)

HttpNext == SyncRequest \/ GetRequest \/ Respond

\* The HTTP server with its requests served one after the other.
SpecHttp == Init /\ [][HttpNext]_vars

\* ------------------------------------------------------- overlapping runs

\* Longest list of raw items a fetch returns to one of two overlapping runs.
MaxOverlapFetch == 1

\* What a fetch returns to a run that overlaps another: items that parse.
OverlapFetchResults == ListsUpTo({Item1, Item2, Item4}, MaxOverlapFetch)

\* A run of the job or of the sync endpoint, started whether or not the
\* other is under way: nothing in upsert excludes the other run.
OverlapStep(r) ==
    \/ StartSync(r)
    \/ \E raw \in OverlapFetchResults : FetchReturns(r, raw)
    \/ ClearCollection(r)
    \/ InsertDocuments(r)
    \/ Finish(r)

OverlapNext == \E r \in Runs : OverlapStep(r)

\* The job and the sync endpoint running at the same time.
SpecOverlap == Init /\ [][OverlapNext]_vars

\* ------------------------------------------------------------ the use cases

\* One call of a method of the storage, with its positional arguments.
StorageCall(method, args) == [method |-> method, args |-> args]

\* A query method of UseCases runs: q holds its name and arguments, the calls
\* it made on the storage, and what it hands back to its caller.
UseCase(name, args, calls, out) ==
    /\ q.op = "none"
    /\ q' = [op |-> name, args |-> args, out |-> out, fault |-> 0, calls |-> calls]
    /\ UNCHANGED <<store, pc, before, received, fetched, batch, documents, log>>

\* UseCases.get_parking_spot_by_coordinates
UseCasesGetParkingSpotByCoordinates(coordinates, distance, limit) ==
    UseCase("get_parking_spot_by_coordinates", <<coordinates, distance, limit>>,
            <<StorageCall("find_by_coordinates", <<coordinates, distance, limit>>)>>,
            FindByCoordinatesOp(store, coordinates, distance, limit))

\* UseCases.get_parking_by_id
UseCasesGetParkingById(parking_id) ==
    UseCase("get_parking_by_id", <<parking_id>>,
            <<StorageCall("find_by_id", <<parking_id>>)>>,
            FindByIdOp(store, parking_id))

\* UseCases.get_parking_by_name
UseCasesGetParkingByName(name, limit) ==
    UseCase("get_parking_by_name", <<name, limit>>,
            <<StorageCall("find_by_name", <<name, limit>>)>>,
            FindByNameOp(store, name, limit))

\* UseCases.search_parking_by_name_and_number
UseCasesSearchParkingByNameAndNumber(name, number, limit) ==
    UseCase("search_parking_by_name_and_number", <<name, number, limit>>,
            <<StorageCall("find_by_name_and_number", <<name, number, limit>>)>>,
            FindByNameAndNumberOp(store, name, number, limit))

\* UseCases.search_parking_by_address
UseCasesSearchParkingByAddress(address_query, limit) ==
    UseCase("search_parking_by_address", <<address_query, limit>>,
            <<StorageCall("find_by_address", <<address_query, limit>>)>>,
            FindByAddressOp(store, address_query, limit))

UseCasesGetAllParkingsDropsLimit(given) ==
    UseCase("get_all_parkings", given,
            <<StorageCall("find_all", <<None>>)>>,
            FindAllOp(store, None))

\* UseCases.get_all_parkings: given is the argument list of the call, empty
\* when the caller leaves the limit to its default of None.
UseCasesGetAllParkings(given) ==
    LET limit == IF Len(given) = 0 THEN None ELSE given[1]
    IN UseCase("get_all_parkings", given,
               <<StorageCall("find_all", <<limit>>)>>,
               FindAllOp(store, limit))

UseCaseStep ==
    \/ \E c \in QueryCoords, d \in QueryDistances, l \in Limits :
          UseCasesGetParkingSpotByCoordinates(c, d, l)
    \/ \E i \in QueryIds : UseCasesGetParkingById(i)
    \/ \E n \in QueryNames, l \in Limits : UseCasesGetParkingByName(n, l)
    \/ \E n \in OptionalOf(QueryNames), m \in OptionalOf(QueryNumbers), l \in Limits :
          UseCasesSearchParkingByNameAndNumber(n, m, l)
    \/ \E a \in QueryAddresses, l \in Limits : UseCasesSearchParkingByAddress(a, l)
    \/ \E g \in {<<>>, <<None>>} \cup { <<Some(x)>> : x \in Limits } :
          UseCasesGetAllParkings(g)

UseCasesNext == UseCaseStep \/ Respond

\* Every query method of UseCases against every collection a run can leave
\* behind.
SpecUseCases == InitSearch /\ [][UseCasesNext]_vars

\* ------------------------------------------------------------------ claims

\* Run r has logged event e.
Logged(r, e) == \E i \in 1..Len(log[r]) : log[r][i] = e

\* C1: when upsert was called with a non-empty batch and has returned without
\* error, the collection holds exactly the documents of that batch, in the
\* batch's order: every batch record is stored and nothing older remains.
C1_UpsertReplacesStore ==
    \A r \in Runs :
        (pc[r] = "done" /\ ~IsEmpty(batch[r])) =>
            /\ Len(store) = Len(batch[r])
            /\ \A i \in 1..Len(store) : store[i] = ModelDump(batch[r][i])

\* A non-empty upsert has returned over a collection that held a record the
\* batch does not have.
C1_Witness ==
    \E r \in Runs :
        /\ pc[r] = "done" /\ ~IsEmpty(batch[r])
        /\ \E i \in 1..Len(before[r]) : before[r][i]._id \notin Ids(store)

\* C2: upsert called with an empty ActiveParkings returns normally, issues
\* neither delete_many nor insert_many, and leaves the collection as it was
\* before the call.
C2_EmptyUpsertIsNoOp ==
    \A r \in Runs :
        (Logged(r, "upsert") /\ IsEmpty(batch[r])) =>
            /\ pc[r] = "done"
            /\ log[r] = <<"fetch_parking_data", "upsert">>
            /\ store = before[r]

\* upsert was called with an empty batch over a collection that holds records.
C2_Witness ==
    \E r \in Runs :
        Logged(r, "upsert") /\ IsEmpty(batch[r]) /\ pc[r] = "done" /\ before[r] # <<>>

\* C3: in every state reached by synchronization runs from the empty
\* collection, the English name of every stored record, lower-cased, does not
\* contain "disabled parking".
C3_StoredRecordsAreActive ==
    \A i \in 1..Len(store) : ~Contains(Lower(store[i].name.en), "disabled parking")

\* A run whose fetch returned a disabled parking has stored its batch.
C3_Witness ==
    \E r \in Runs :
        /\ pc[r] = "done" /\ store # <<>> /\ Logged(r, "insert_many")
        /\ \E i \in 1..Len(fetched[r][1]) :
              Contains(Lower(fetched[r][1][i].name.en), "disabled parking")

\* C9: find_by_id never raises; for an id no stored record has it returns
\* None, and for an id a stored record has it returns that record.
C9_FindByIdAbsenceOrRecord ==
    q.op = "find_by_id" =>
        /\ ~q.out.raised
        /\ LET hits == { i \in 1..Len(store) : store[i]._id = q.args.parking_id }
           IN IF hits = {} THEN q.out.result = None
              ELSE /\ Len(q.out.result) = 1
                   /\ q.out.result[1].id = q.args.parking_id
                   /\ \E i \in hits : ModelDump(q.out.result[1]) = store[i]

\* find_by_id was asked for an id that a populated collection does not hold.
C9_Witness ==
    /\ q.op = "find_by_id" /\ store # <<>>
    /\ q.args.parking_id \notin Ids(store)
    /\ q.out.result = None

\* C10: when fetch_parking_data fails, the run ends with the error, upsert is
\* not called (the failed fetch is the last thing the run did) and the
\* collection is as it was when the run started.
C10_FetchFailureLeavesStore ==
    \A r \in Runs :
        Logged(r, "HTTPError") =>
            /\ pc[r] = "failed"
            /\ log[r] = <<"fetch_parking_data", "HTTPError">>
            /\ store = before[r]

\* A fetch has failed in a run over a collection that holds records.
C10_Witness ==
    \E r \in Runs : Logged(r, "HTTPError") /\ pc[r] = "failed" /\ before[r] # <<>>

\* The stored document of the i-th record of the last query's result.
ResultDoc(i) == ModelDump(q.out.result[i])

ResultDocs == [i \in 1..Len(q.out.result) |-> ResultDoc(i)]

\* litera or zone.number of doc contains number, letter case ignored.
NumberMatches(doc, number) ==
    \/ ~IsNone(doc.litera) /\ Contains(Lower(doc.litera[1]), Lower(number))
    \/ ~IsNone(doc.zone) /\ Contains(Lower(doc.zone[1].number), Lower(number))

\* The last query is find_by_name_and_number with both arguments given and a
\* text search for the name that returned something.
BothGivenAndTextHit ==
    /\ q.op = "find_by_name_and_number"
    /\ ~Falsy(q.args.name) /\ ~Falsy(q.args.number)
    /\ FindLimited(TextQuery(store, q.args.name[1]), q.args.limit) # <<>>

\* C4 as claimed: with name and number given and a text search that returned
\* something, every returned record matches the text search for the name and
\* has litera or zone.number matching the number.
C4_AsClaimed ==
    BothGivenAndTextHit =>
        \A i \in 1..Len(q.out.result) :
            /\ TextMatch(ResultDoc(i), q.args.name[1])
            /\ NumberMatches(ResultDoc(i), q.args.number[1])

\* C4: with name and number given and a text search that returned something,
\* the call does not raise and every returned record has litera or
\* zone.number matching the number; if some stored record matches both the
\* text search and the number, the result is exactly those records (up to
\* the limit), and if none does, the result is the records matching the
\* number alone (up to the limit), whether or not they match the name.
C4_NarrowedOrNumberOnly ==
    BothGivenAndTextHit =>
        LET both == { i \in 1..Len(store) :
                        /\ TextMatch(store[i], q.args.name[1])
                        /\ NumberMatches(store[i], q.args.number[1]) }
            numberOnly == { i \in 1..Len(store) : NumberMatches(store[i], q.args.number[1]) }
            chosen == IF both # {} THEN both ELSE numberOnly
        IN /\ ~q.out.raised
           /\ \A i \in 1..Len(q.out.result) : NumberMatches(ResultDoc(i), q.args.number[1])
           /\ ResultDocs = Take(Pick(store, [i \in 1..Len(store) |-> i \in chosen]),
                                q.args.limit)
           /\ both # {} => \A i \in 1..Len(q.out.result) :
                               TextMatch(ResultDoc(i), q.args.name[1])

\* The scenario of the claim: "Park A"/Z1 and "Park A Annex"/Z2 are stored, and
\* the query ("Park A", "Z1") returns only the first.
C4_Witness ==
    /\ BothGivenAndTextHit
    /\ q.args.name = Some("Park A") /\ q.args.number = Some("Z1")
    /\ {1, 2} \subseteq Ids(store)
    /\ Len(q.out.result) = 1 /\ q.out.result[1].id = 1

\* C5: find_by_name_and_number with name and number both None or empty
\* returns the empty list without raising and issues no query to the store,
\* whatever the collection and the limit.
C5_BothAbsentReturnsEmpty ==
    ( /\ q.op = "find_by_name_and_number"
      /\ q.args.name \in {None, Some("")}
      /\ q.args.number \in {None, Some("")} ) =>
        /\ ~q.out.raised
        /\ q.out.result = <<>>
        /\ q.out.issued = <<>>

\* Both arguments are absent, one of them as the empty string, over a
\* populated collection with a limit that would let records through.
C5_Witness ==
    /\ q.op = "find_by_name_and_number"
    /\ q.args.name = Some("") /\ q.args.number = None
    /\ store # <<>> /\ q.args.limit > 0
    /\ q.out.result = <<>>

\* C6: find_by_name issues the text search first and the regex query only
\* when the text search returned no document; when the text search returned
\* documents the result is exactly those documents, and when both phases
\* return nothing the result is the empty list; it does not raise.
C6_TextFirstRegexOnlyOnMiss ==
    q.op = "find_by_name" =>
        LET text == FindLimited(TextQuery(store, q.args.name), q.args.limit)
            regex == FindLimited(NameRegexQuery(store, q.args.name), q.args.limit)
        IN /\ ~q.out.raised
           /\ q.out.issued[1] = "text"
           /\ (text # <<>>) => (q.out.issued = <<"text">> /\ ResultDocs = text)
           /\ (text = <<>>) => (q.out.issued = <<"text", "regex">> /\ ResultDocs = regex)
           /\ (text = <<>> /\ regex = <<>>) => q.out.result = <<>>

\* The text phase returned documents, the limit left room for more, and a
\* stored record that only the regex matches is not in the result.
C6_Witness ==
    /\ q.op = "find_by_name"
    /\ q.out.issued = <<"text">>
    /\ Len(q.out.result) < q.args.limit
    /\ \E i \in 1..Len(store) :
          /\ OrRegex(NameFields(store[i]), q.args.name)
          /\ ~TextMatch(store[i], q.args.name)
          /\ \A j \in 1..Len(q.out.result) : q.out.result[j].id # store[i]._id

\* The haversine distance from the query point to the center of the i-th
\* returned record, a (longitude, latitude) pair.
Recomputed(i) ==
    Haversine(q.args.coords.longitude, q.args.coords.latitude,
              q.out.result[i].center.coordinates[1], q.out.result[i].center.coordinates[2])

HasPairCenter(i) ==
    /\ q.out.result[i].center.type = "Point"
    /\ Len(q.out.result[i].center.coordinates) = 2

\* C7: when find_by_coordinates returns, every returned record whose center
\* is a coordinate pair carries the haversine distance recomputed from that
\* pair to the query point, whatever distance the stored document held, and
\* these records come in ascending order of that distance.
C7_SortedByRecomputedDistance ==
    (q.op = "find_by_coordinates" /\ ~q.out.raised) =>
        /\ \A i \in 1..Len(q.out.result) :
              HasPairCenter(i) => q.out.result[i].distance = Some(Recomputed(i))
        /\ \A i, j \in 1..Len(q.out.result) :
              (i < j /\ HasPairCenter(i) /\ HasPairCenter(j)) => Recomputed(i) <= Recomputed(j)

\* Two records came back at different distances, one of them stored with a
\* distance of its own that the result no longer shows.
C7_Witness ==
    /\ q.op = "find_by_coordinates" /\ ~q.out.raised
    /\ Len(q.out.result) = 2
    /\ Recomputed(1) < Recomputed(2)
    /\ \E i \in 1..2, k \in 1..Len(store) :
          /\ store[k]._id = q.out.result[i].id
          /\ ~IsNone(store[k].distance)
          /\ store[k].distance # q.out.result[i].distance

\* C8 as claimed: find_by_coordinates does not fail when a returned record's
\* center does not hold exactly two coordinates; such a record gets no
\* distance and comes after every record that has one.
C8_AsClaimed ==
    q.op = "find_by_coordinates" =>
        /\ ~q.out.raised
        /\ \A i, j \in 1..Len(q.out.result) :
              (IsNone(q.out.result[i].distance) /\ ~IsNone(q.out.result[j].distance)) => j < i

\* The k-th smallest member of the set S of positions.
NthOf(S, k) == CHOOSE i \in S : Cardinality({ j \in S : j <= i }) = k

\* The positions of raw whose item passes Parking.model_validate.
ValidPositions(raw) == { i \in 1..Len(raw) : ~IsNone(ModelValidate(raw[i])) }

\* The Parkings of the valid items of raw, in the order of raw.
ValidItemsInOrder(raw) ==
    [k \in 1..Cardinality(ValidPositions(raw)) |->
        ModelValidate(raw[NthOf(ValidPositions(raw), k)])[1]]

\* C11 as the spec states it: whatever list of raw items the source answers a
\* run with, parsing is not aborted by an item that fails validation, and the
\* parsed result is exactly the valid items in their original order.  The
\* code breaks this for an item that is not an object.
C11_AsClaimed ==
    \A r \in Runs :
        ~IsNone(received[r]) =>
            /\ ~IsNone(fetched[r])
            /\ fetched[r][1] = ValidItemsInOrder(received[r][1])

QueryOps == {"find_by_coordinates", "find_by_id", "find_by_name",
             "find_by_name_and_number", "find_by_address", "find_all"}

\* The documents of coll that Parking.model_validate accepts, in order.
GoodDocuments(coll) ==
    Pick(coll, [i \in 1..Len(coll) |-> ~IsNone(ModelValidate(coll[i]))])

\* The last query operation, run again with its arguments on coll.
RunAgainOn(coll) ==
    CASE q.op = "find_by_coordinates" ->
            FindByCoordinatesOp(coll, q.args.coords, q.args.distance, q.args.limit)
      [] q.op = "find_by_id" -> FindByIdOp(coll, q.args.parking_id)
      [] q.op = "find_by_name" -> FindByNameOp(coll, q.args.name, q.args.limit)
      [] q.op = "find_by_name_and_number" ->
            FindByNameAndNumberOp(coll, q.args.name, q.args.number, q.args.limit)
      [] q.op = "find_by_address" -> FindByAddressOp(coll, q.args.address_query, q.args.limit)
      [] q.op = "find_all" -> FindAllOp(coll, q.args.limit)

\* The Parkings of the convertible documents of coll.
GoodParkings(coll) ==
    [i \in 1..Len(GoodDocuments(coll)) |-> ModelValidate(GoodDocuments(coll)[i])[1]]

\* C12 as the spec states it: a query operation that the store answered, and
\* that succeeds on the convertible documents alone, does not fail because
\* the collection also holds a document that cannot be converted; every
\* record it returns comes from a convertible stored document, find_by_id
\* returns the convertible document of that id and an uncapped find_all every
\* convertible document.  The code breaks this in find_by_coordinates.
C12_AsClaimed ==
    (q.op \in QueryOps /\ q.fault = 0 /\ ~RunAgainOn(GoodDocuments(store)).raised) =>
        /\ ~q.out.raised
        /\ \A i \in 1..Len(q.out.result) :
              \E j \in 1..Len(GoodDocuments(store)) :
                  GoodDocuments(store)[j]._id = q.out.result[i].id
        /\ q.op = "find_by_id" => q.out.result = RunAgainOn(GoodDocuments(store)).result
        /\ (q.op = "find_all" /\ IsNone(q.args.limit)) => q.out.result = GoodParkings(store)

\* C13: when the store raises during find_all, find_all raises nothing and
\* returns the empty list; when the store raises during any other query
\* operation, the operation raises.
C13_StoreErrorSwallowedOnlyByFindAll ==
    q.fault > 0 =>
        IF q.op = "find_all"
        THEN ~q.out.raised /\ q.out.result = <<>>
        ELSE q.op \in QueryOps /\ q.out.raised

\* The store raised during a find_all over a collection that holds
\* convertible documents.
C13_Witness ==
    /\ q.op = "find_all" /\ q.fault > 0
    /\ GoodDocuments(store) # <<>>
    /\ ~q.out.raised

\* No stretch of en reads 'disabled parking' once lower-cased.
LacksMarker(en) ==
    \A i \in 1..(Len(en) - 15) : Lower(SubSeq(en, i, i + 15)) # "disabled parking"

\* The parkings fetch_parking_data returned to run r.
Fetched(r) == fetched[r][1]

\* C14: for every parking a fetch returned, is_active is true exactly when
\* the lower-cased English name lacks 'disabled parking' (and so the parking
\* is in the batch exactly then); the answer is the same with the blocked
\* flag flipped and with the marker put into other text fields.
C14_IsActiveByEnglishNameOnly ==
    \A r \in Runs :
        ~IsNone(fetched[r]) =>
            \A i \in 1..Len(Fetched(r)) :
                LET p == Fetched(r)[i]
                IN /\ IsActive(p) <=> LacksMarker(p.name.en)
                   /\ (\E j \in 1..Len(batch[r]) : batch[r][j] = p) <=> LacksMarker(p.name.en)
                   /\ IsActive([p EXCEPT !.blocked = ~@]) <=> IsActive(p)
                   /\ IsActive([p EXCEPT !.name.ru = "disabled parking",
                                         !.description.en = "Disabled Parking",
                                         !.litera = Some("disabled parking")]) <=> IsActive(p)

\* A fetch returned a blocked parking that is active and an unblocked one
\* that is not.
C14_Witness ==
    \E r \in Runs :
        /\ ~IsNone(fetched[r])
        /\ \E i, j \in 1..Len(Fetched(r)) :
              /\ Fetched(r)[i].blocked /\ IsActive(Fetched(r)[i])
              /\ ~Fetched(r)[j].blocked /\ ~IsActive(Fetched(r)[j])

\* The positions of parkings whose record is active by its English name.
ActivePositions(parkings) ==
    { i \in 1..Len(parkings) : LacksMarker(parkings[i].name.en) }

\* C15: the batch filter_active_parkings made of a fetched list is exactly
\* the active records of the list, each as often as it occurs and in the
\* order of the list; its length is the number of active records and
\* is_empty() is true exactly when that number is zero.
C15_FilterKeepsActiveInOrder ==
    \A r \in Runs :
        ~IsNone(fetched[r]) =>
            LET active == ActivePositions(Fetched(r))
            IN /\ batch[r] = [k \in 1..Cardinality(active) |-> Fetched(r)[NthOf(active, k)]]
               /\ Len(batch[r]) = Cardinality(active)
               /\ IsEmpty(batch[r]) <=> Cardinality(active) = 0

\* A fetch returned an inactive parking followed by an active one, and the
\* batch is the active one alone.
C15_Witness ==
    \E r \in Runs :
        /\ ~IsNone(fetched[r]) /\ Len(Fetched(r)) = 2
        /\ ~LacksMarker(Fetched(r)[1].name.en)
        /\ batch[r] = <<Fetched(r)[2]>>

\* C16: filtering the list of an already-filtered collection gives the same
\* records in the same order.
C16_FilterIdempotent ==
    \A r \in Runs :
        ~IsNone(fetched[r]) => FilterActiveParkings(batch[r]) = batch[r]

\* A batch of two different parkings, filtered from a fetched list.
C16_Witness ==
    \E r \in Runs :
        /\ ~IsNone(fetched[r])
        /\ Len(batch[r]) = 2 /\ batch[r][1].id # batch[r][2].id
        /\ FilterActiveParkings(batch[r]) = batch[r]

GetOps == {"get_parking_info", "search_parking_by_name", "get_parking_by_id"}

\* C17: when the use case behind the coordinates search, the name search or
\* get-by-id returns an empty list (None for get-by-id), the response is a
\* 404 with error 'Not Found Error', never a 500.
C17_EmptyResultIsNotFound ==
    (q.op \in GetOps /\ ~q.out.raised /\ Len(q.out.result) = 0) =>
        /\ q.response.status = 404
        /\ q.response.error = "Not Found Error"

\* The name search found nothing in a collection that holds records, and
\* answered 404.
C17_Witness ==
    /\ q.op = "search_parking_by_name" /\ store # <<>>
    /\ ~q.out.raised /\ Len(q.out.result) = 0
    /\ q.response.status = 404

\* C18: whenever the use case behind an endpoint raises, the response is a
\* 500 with error 'Internal Server Error'; and the sync endpoint answers 200
\* with status 'success' exactly when save_or_update_parking_spots returned
\* without raising.
C18_UseCaseErrorIsInternalServerError ==
    /\ (q.op \in GetOps \cup {"sync_parking_data"} /\ q.out.raised) =>
            /\ q.response.status = 500
            /\ q.response.error = "Internal Server Error"
    /\ q.op = "sync_parking_data" =>
            ((q.response.status = 200 /\ q.response.body = <<"success">>) <=> ~q.out.raised)

\* The coordinates search raised without any store error (the sort failed)
\* and answered 500.
C18_Witness ==
    /\ q.op = "get_parking_info" /\ q.fault = 0
    /\ q.out.raised
    /\ q.response.status = 500

\* C19: for every parking p of a batch, the document model_dump(by_alias=True)
\* makes of p validates, the Parking it validates to is p with every field
\* (zone, category and spaces included), and dumping that Parking gives the
\* same document again, which is the one upsert stores; the document is keyed
\* by the aliases.  And the records find_all returns dump to the documents
\* stored.
C19_DocumentRoundTrip ==
    /\ \A r \in Runs : \A i \in 1..Len(batch[r]) :
          LET p == batch[r][i]
              d == ModelDump(p)
          IN /\ ~IsNone(ModelValidate(d))
             /\ ModelValidate(d)[1] = p
             /\ ModelDump(ModelValidate(d)[1]) = d
             /\ documents[r] # <<>> => documents[r][i] = d
             /\ {"_id", "customType", "resolutionAddress"} \subseteq DOMAIN d
             /\ {"_id", "iconName", "zonePurpose"} \subseteq DOMAIN d.category
             /\ ~IsNone(d.zone) =>
                    /\ {"_id", "type"} \subseteq DOMAIN d.zone[1]
                    /\ ~IsNone(d.zone[1].prices) =>
                          \A k \in 1..Len(d.zone[1].prices[1]) :
                              "vehicleType" \in DOMAIN d.zone[1].prices[1][k]
    /\ (q.op = "find_all" /\ IsNone(q.args.limit) /\ q.fault = 0) =>
          /\ Len(q.out.result) = Len(store)
          /\ \A i \in 1..Len(store) : ModelDump(q.out.result[i]) = store[i]

\* A run has converted a batch whose first parking has a zone with prices,
\* a category and spaces.
C19_Witness ==
    \E r \in Runs :
        /\ pc[r] = "clearing" /\ documents[r] # <<>>
        /\ ~IsNone(batch[r][1].zone)
        /\ ~IsNone(batch[r][1].zone[1].prices)
        /\ ~IsNone(batch[r][1].spaces)
        /\ documents[r][1].zone[1].prices[1][1].vehicleType = "car"

\* C20 as the spec states it: no stored document carries a distance value,
\* and the records of the queries other than find_by_coordinates carry none.
\* The code stores the distance of a raw item that has one.
C20_AsClaimed ==
    /\ \A i \in 1..Len(store) : IsNone(store[i].distance)
    /\ (q.op \in {"find_by_id", "find_all"} /\ ~q.out.raised) =>
          \A i \in 1..Len(q.out.result) : IsNone(q.out.result[i].distance)

\* C21: while a run stands between the delete and the insert of its upsert,
\* the store is empty, and a find_all or find_by_id that runs then finds
\* nothing, whatever the store held before the upsert and whatever the
\* insert is about to store.
C21_EmptyBetweenDeleteAndInsert ==
    \A r \in Runs :
        pc[r] = "inserting" =>
            /\ store = <<>>
            /\ documents[r] # <<>>
            /\ (q.op \in {"find_all", "find_by_id"} /\ q.fault = 0) =>
                    (~q.out.raised /\ q.out.result = <<>>)

\* A find_all between the two steps returned nothing although the store
\* held records before the upsert and the run is about to insert records.
C21_Witness ==
    \E r \in Runs :
        /\ pc[r] = "inserting"
        /\ before[r] # <<>> /\ documents[r] # <<>>
        /\ q.op = "find_all" /\ q.args.limit = None
        /\ q.out.result = <<>>

\* C22: the steps of two upserts interleave freely.  The delete of a run
\* empties the store whatever the other run has inserted, and the insert of
\* a run adds its documents to whatever the store holds at that moment, the
\* documents of the other run included.
C22_UpsertStepsInterleave ==
    [][\A r \in Runs :
          /\ (pc[r] = "clearing" /\ pc'[r] = "inserting") => store' = <<>>
          /\ (pc[r] = "inserting" /\ pc'[r] = "done") => store' = store \o documents[r]
      ]_vars

\* Both runs have returned from upsert after delete, delete, insert, insert:
\* the store holds the documents of both and equals the batch of neither.
C22_Witness ==
    /\ \A r \in Runs : pc[r] = "done" /\ documents[r] # <<>>
    /\ store # documents["job"] /\ store # documents["api"]
    /\ Len(store) = Len(documents["job"]) + Len(documents["api"])

\* The points a find_by_coordinates call measures between, as (longitude,
\* latitude): the query point and the stored point centers.
PointsMet ==
    {<<q.args.coords.longitude, q.args.coords.latitude>>}
        \cup { store[i].center.coordinates :
                 i \in { j \in 1..Len(store) : store[j].center.type = "Point" } }

\* C23: for the points of every find_by_coordinates call, the distance from
\* a to b equals the distance from b to a, and the distance from a point to
\* itself is 0.
C23_HaversineSymmetricZeroOnEqual ==
    q.op = "find_by_coordinates" =>
        \A a, b \in PointsMet :
            /\ CalculateDistance(Coordinates(a[2], a[1]), b)
                   = CalculateDistance(Coordinates(b[2], b[1]), a)
            /\ CalculateDistance(Coordinates(a[2], a[1]), a) = 0

\* A search returned a record at a positive distance whose center differs
\* from the query point in longitude and in latitude.
C23_Witness ==
    /\ q.op = "find_by_coordinates" /\ ~q.out.raised
    /\ \E i \in 1..Len(q.out.result) :
          /\ q.out.result[i].center.type = "Point"
          /\ q.out.result[i].distance[1] > 0
          /\ q.out.result[i].center.coordinates[1] # q.args.coords.longitude
          /\ q.out.result[i].center.coordinates[2] # q.args.coords.latitude

UseCaseOps ==
    {"get_parking_spot_by_coordinates", "get_parking_by_id", "get_parking_by_name",
     "search_parking_by_name_and_number", "search_parking_by_address",
     "get_all_parkings"}

\* The storage method that corresponds to the use case q holds.
CorrespondingMethod ==
    CASE q.op = "get_parking_spot_by_coordinates" -> "find_by_coordinates"
      [] q.op = "get_parking_by_id" -> "find_by_id"
      [] q.op = "get_parking_by_name" -> "find_by_name"
      [] q.op = "search_parking_by_name_and_number" -> "find_by_name_and_number"
      [] q.op = "search_parking_by_address" -> "find_by_address"
      [] q.op = "get_all_parkings" -> "find_all"

\* The arguments the use case q holds was called with, the omitted limit of
\* get_all_parkings taken as None.
ArgumentsGiven == IF Len(q.args) = 0 THEN <<None>> ELSE q.args

\* What the corresponding storage method gives for those arguments.
StorageResult ==
    LET a == ArgumentsGiven
    IN CASE q.op = "get_parking_spot_by_coordinates" ->
                FindByCoordinatesOp(store, a[1], a[2], a[3])
         [] q.op = "get_parking_by_id" -> FindByIdOp(store, a[1])
         [] q.op = "get_parking_by_name" -> FindByNameOp(store, a[1], a[2])
         [] q.op = "search_parking_by_name_and_number" ->
                FindByNameAndNumberOp(store, a[1], a[2], a[3])
         [] q.op = "search_parking_by_address" -> FindByAddressOp(store, a[1], a[2])
         [] q.op = "get_all_parkings" -> FindAllOp(store, a[1])

\* C24: every query method of UseCases makes exactly one call on the storage,
\* of the corresponding method with the arguments it was given (None for the
\* limit get_all_parkings was called without), and hands back what that call
\* gave, unchanged.
C24_UseCasesDelegateOnce ==
    q.op \in UseCaseOps =>
        /\ Len(q.calls) = 1
        /\ q.calls[1].method = CorrespondingMethod
        /\ q.calls[1].args = ArgumentsGiven
        /\ q.out = StorageResult

\* get_all_parkings was called with a limit of 1 against a collection of two
\* or more documents and handed back one record.
C24_Witness ==
    /\ q.op = "get_all_parkings"
    /\ q.args = <<Some(1)>>
    /\ Len(store) >= 2
    /\ Len(q.out.result) = 1
    /\ q.calls = <<StorageCall("find_all", <<Some(1)>>)>>

\* get_all_parkings was called without a limit and handed back every record.
C24_WitnessDefault ==
    /\ q.op = "get_all_parkings"
    /\ q.args = <<>>
    /\ Len(store) >= 2
    /\ Len(q.out.result) = Len(store)

\* How often run r has logged event e.
TimesLogged(r, e) == Cardinality({ i \in 1..Len(log[r]) : log[r][i] = e })

FetchErrors == {"HTTPError", "AttributeError"}

\* C25: a run that is under way or over has called fetch_parking_data exactly
\* once, as its first step; it has called upsert at most once, directly after
\* the fetch and only when the fetch returned, with the active records of
\* what was fetched; a run whose fetch raised has ended in failure with no
\* second fetch and no upsert, and a run that ended well has called upsert.
C25_FetchOnceThenUpsertOnce ==
    \A r \in Runs :
        pc[r] # "idle" =>
            /\ log[r][1] = "fetch_parking_data"
            /\ TimesLogged(r, "fetch_parking_data") = 1
            /\ TimesLogged(r, "upsert") <= 1
            /\ Logged(r, "upsert") =>
                  /\ log[r][2] = "upsert"
                  /\ ~IsNone(fetched[r])
                  /\ batch[r] = [k \in 1..Cardinality(ActivePositions(Fetched(r))) |->
                                    Fetched(r)[NthOf(ActivePositions(Fetched(r)), k)]]
            /\ (\E e \in FetchErrors : Logged(r, e)) =>
                  /\ pc[r] = "failed"
                  /\ Len(log[r]) = 2
                  /\ IsNone(fetched[r])
            /\ pc[r] = "done" => TimesLogged(r, "upsert") = 1
            /\ pc[r] = "fetching" <=> Len(log[r]) = 1

\* A run has ended well after one fetch and one upsert whose batch is a
\* non-empty proper part of what was fetched.
C25_Witness ==
    \E r \in Runs :
        /\ pc[r] = "done"
        /\ ~IsNone(fetched[r])
        /\ Len(batch[r]) > 0
        /\ Len(batch[r]) < Len(Fetched(r))
        /\ TimesLogged(r, "fetch_parking_data") = 1
        /\ TimesLogged(r, "upsert") = 1

\* A run has ended in failure after its one fetch raised.
C25_WitnessFailedFetch ==
    \E r \in Runs : pc[r] = "failed" /\ log[r] = <<"fetch_parking_data", "HTTPError">>

\* C26: a step in which one of the six query operations runs, with whatever
\* arguments, returning or raising and with or without a store fault, leaves
\* the collection as it was.
C26_QueriesReadOnly ==
    [][(q.op = "none" /\ q'.op \in QueryOps) => store' = store]_vars

\* A query has raised on a store fault, and the collection it ran against
\* holds two or more documents.
C26_Witness ==
    /\ q.op \in QueryOps
    /\ q.fault > 0
    /\ q.out.raised
    /\ Len(store) >= 2

\* A query has returned records from a collection of two or more documents.
C26_WitnessReturned ==
    /\ q.op \in QueryOps
    /\ q.fault = 0
    /\ ~q.out.raised
    /\ Len(q.out.result) >= 1
    /\ Len(store) >= 2

\* Document doc has the pattern in one of the nine fields of
\* _build_name_search_conditions.
NameOrZoneMatches(doc, name) ==
    \/ RegexMatch(Some(doc.name.ru), name) \/ RegexMatch(Some(doc.name.en), name)
    \/ RegexMatch(Some(doc.address.street.ru), name)
    \/ RegexMatch(Some(doc.address.street.en), name)
    \/ RegexMatch(SubwayRu(doc), name) \/ RegexMatch(SubwayEn(doc), name)
    \/ RegexMatch(Some(doc.description.ru), name)
    \/ RegexMatch(Some(doc.description.en), name)
    \/ RegexMatch(ZoneNumber(doc), name)

\* find_by_name_and_number ran with a name, and the text search for the name
\* gave it nothing.
NameGivenAndTextMiss ==
    /\ q.op = "find_by_name_and_number"
    /\ ~Falsy(q.args.name)
    /\ Take(Pick(store, [i \in 1..Len(store) |-> TextMatch(store[i], q.args.name[1])]),
            q.args.limit) = <<>>

\* C27: when find_by_name_and_number has a name and the text search gave
\* nothing, the result is the records with the name in one of the name fields
\* or in zone.number, up to the limit and whether or not they match the
\* number; only when there are none of those and a number is given, the
\* result is the records with the number in litera or zone.number, up to the
\* limit.
C27_RegexByNameThenNumberOnly ==
    NameGivenAndTextMiss =>
        LET byName == Take(Pick(store, [i \in 1..Len(store) |->
                                    NameOrZoneMatches(store[i], q.args.name[1])]),
                           q.args.limit)
            byNumber == IF Falsy(q.args.number) THEN <<>>
                        ELSE Take(Pick(store, [i \in 1..Len(store) |->
                                        NumberMatches(store[i], q.args.number[1])]),
                                  q.args.limit)
        IN /\ ~q.out.raised
           /\ ResultDocs = IF byName # <<>> THEN byName ELSE byNumber

\* The name "side" is in no word of the text index but inside the name of
\* record 3, the number "Z1" belongs to record 1 alone: record 3 is returned
\* and record 1 is not.
C27_Witness ==
    /\ NameGivenAndTextMiss
    /\ q.args.name = Some("side") /\ q.args.number = Some("Z1")
    /\ {1, 3} \subseteq Ids(store)
    /\ Len(q.out.result) = 1 /\ q.out.result[1].id = 3

\* The name "Z2" is in zone.number of record 2 alone, and record 2 is
\* returned.
C27_WitnessZoneNumber ==
    /\ NameGivenAndTextMiss
    /\ q.args.name = Some("Z2") /\ Falsy(q.args.number)
    /\ Len(q.out.result) = 1 /\ q.out.result[1].id = 2

\* The name is in no record, and the records with the number are returned.
C27_WitnessNumberOnly ==
    /\ NameGivenAndTextMiss
    /\ q.args.name = Some("XYZ") /\ q.args.number = Some("Z1")
    /\ Len(q.out.result) = 1 /\ q.out.result[1].id = 1

\* Document doc has the query, letter case ignored, as a substring of one of
\* its five address fields.
AddressContains(doc, query) ==
    \/ Contains(Lower(doc.address.street.en), Lower(query))
    \/ Contains(Lower(doc.address.street.ru), Lower(query))
    \/ Contains(Lower(doc.address.house.en), Lower(query))
    \/ Contains(Lower(doc.address.house.ru), Lower(query))
    \/ Contains(Lower(doc.resolutionAddress), Lower(query))

\* C28 as the spec states it: find_by_address issues no text query; for
\* every query string each returned record contains the query, letter case
\* ignored, as a substring of one of its five address fields; and a stored
\* record that contains it is returned unless the limit cut the result off.
\* The code breaks this for a query string that holds a regex metacharacter.
C28_AsClaimed ==
    q.op = "find_by_address" =>
        /\ ~q.out.raised
        /\ \A i \in 1..Len(q.out.issued) : q.out.issued[i] = "regex_address"
        /\ \A i \in 1..Len(q.out.result) : AddressContains(ResultDoc(i), q.args.address_query)
        /\ \A i \in 1..Len(store) :
              AddressContains(store[i], q.args.address_query) =>
                  \/ \E j \in 1..Len(q.out.result) : ResultDoc(j) = store[i]
                  \/ Len(q.out.result) = q.args.limit

\* The same for the query strings without a metacharacter.
C28_HoldsForPlainQueries ==
    (q.op = "find_by_address" /\ ~Contains(q.args.address_query, ".")) =>
        /\ ~q.out.raised
        /\ \A i \in 1..Len(q.out.issued) : q.out.issued[i] = "regex_address"
        /\ \A i \in 1..Len(q.out.result) : AddressContains(ResultDoc(i), q.args.address_query)
        /\ \A i \in 1..Len(store) :
              AddressContains(store[i], q.args.address_query) =>
                  \/ \E j \in 1..Len(q.out.result) : ResultDoc(j) = store[i]
                  \/ Len(q.out.result) = q.args.limit

LimitedOps ==
    {"find_by_coordinates", "find_by_name", "find_by_name_and_number", "find_by_address"}

\* C29 as the spec states it: find_by_coordinates, find_by_name,
\* find_by_name_and_number and find_by_address return at most limit records;
\* find_all returns at most limit records for every limit of 0 or more that
\* is given, and every stored record when the limit is None.  The code
\* breaks this for find_all with a limit of 0.
C29_AsClaimed ==
    /\ q.op \in LimitedOps => Len(q.out.result) <= q.args.limit
    /\ q.op = "find_all" =>
          IF IsNone(q.args.limit)
          THEN ResultDocs = store
          ELSE Len(q.out.result) <= q.args.limit[1]

\* The same with the limit 0 of find_all left out.
C29_HoldsForPositiveLimits ==
    /\ q.op \in LimitedOps => Len(q.out.result) <= q.args.limit
    /\ (q.op = "find_all" /\ q.args.limit # Some(0)) =>
          IF IsNone(q.args.limit)
          THEN ResultDocs = store
          ELSE Len(q.out.result) <= q.args.limit[1]

\* C30 as the spec states it: when a run has ended with an error, at whatever
\* step, the collection is what it was when the run started.  The code
\* breaks this for a run whose insert fails after its delete.
C30_AsClaimed ==
    \A r \in Runs : pc[r] = "failed" => store = before[r]

\* The same for the runs that failed before upsert issued its delete.
C30_HoldsBeforeTheDelete ==
    \A r \in Runs :
        (pc[r] = "failed" /\ ~Logged(r, "delete_many")) => store = before[r]

====
